---- MODULE Spec2Model ----
(***************************************************************************)
(* usb_refresher.py: the escalating ADB/USB recovery run of main().        *)
(*                                                                         *)
(* Text is modelled as Python sees it: a str is a sequence of one-char     *)
(* strings, the stdout of a child process is the sequence of its lines     *)
(* (what str.splitlines() yields).  Time is the wall clock of time.time()  *)
(* in whole seconds; every child process takes 0..MaxDur seconds or never  *)
(* returns (run_command is always called with timeout=None).               *)
(***************************************************************************)
EXTENDS Integers, Sequences, FiniteSets, TLC

\* ---------------------------------------------------------------- bounds
MaxTimeout == 3
MaxDur == 1

\* ------------------------------------------------------ program constants
PollInterval == 2
SettleDelay == 2

\* Python's None: a value that is no str (its one element is no character).
None == <<"None">>

\* "device"
ADB_HEALTHY_STATE == <<"d","e","v","i","c","e">>

\* the argument lists of the three soft-reset commands (never parsed: plain words)
ADB_SOFT_RESET_COMMANDS == << "kill-server", "start-server", "reconnect" >>

\* "Android Composite ADB Interface"
ANDROID_DEVICE_NAME == <<"A","n","d","r","o","i","d"," ","C","o","m","p","o","s","i","t","e"," ","A","D","B"," ","I","n","t","e","r","f","a","c","e">>

COMMON_ANDROID_VIDS ==
  { <<"1","8","D","1">>, <<"0","B","B","4">>, <<"1","2","D","1">>,
    <<"0","4","E","8">>, <<"2","2","B","8">>, <<"2","A","7","0">>,
    <<"0","F","C","E">>, <<"0","5","0","2">>, <<"0","5","C","6">> }

\* ------------------------------------------------------- str operations
UPPER == <<"A","B","C","D","E","F","G","H","I","J","K","L","M","N","O","P","Q","R","S","T","U","V","W","X","Y","Z">>
LOWER == <<"a","b","c","d","e","f","g","h","i","j","k","l","m","n","o","p","q","r","s","t","u","v","w","x","y","z">>
DIGITS == {"0","1","2","3","4","5","6","7","8","9"}
WHITESPACE == {" ", "\t"}

LowerChar(c) == IF \E i \in 1..26 : UPPER[i] = c
                THEN LOWER[CHOOSE i \in 1..26 : UPPER[i] = c] ELSE c
UpperChar(c) == IF \E i \in 1..26 : LOWER[i] = c
                THEN UPPER[CHOOSE i \in 1..26 : LOWER[i] = c] ELSE c

\* str.lower(), str.upper()
Lower(s) == [i \in 1..Len(s) |-> LowerChar(s[i])]
Upper(s) == [i \in 1..Len(s) |-> UpperChar(s[i])]

\* str.strip()
RECURSIVE LStrip(_)
LStrip(s) == IF Len(s) > 0 /\ s[1] \in WHITESPACE THEN LStrip(Tail(s)) ELSE s
RECURSIVE RStrip(_)
RStrip(s) == IF Len(s) > 0 /\ s[Len(s)] \in WHITESPACE
             THEN RStrip(SubSeq(s, 1, Len(s) - 1)) ELSE s
Strip(s) == RStrip(LStrip(s))

\* str.startswith(p), p in s
StartsWith(s, p) == Len(s) >= Len(p) /\ SubSeq(s, 1, Len(p)) = p
Contains(s, p) == \E i \in 0..(Len(s) - Len(p)) : SubSeq(s, i + 1, i + Len(p)) = p

\* the index of the first character of s that is in set cs, Len(s)+1 if none
FirstIn(s, cs) == IF \E i \in 1..Len(s) : s[i] \in cs
                  THEN CHOOSE i \in 1..Len(s) : s[i] \in cs /\ \A j \in 1..(i - 1) : s[j] \notin cs
                  ELSE Len(s) + 1

\* str.split(): the maximal runs of non-whitespace characters
RECURSIVE Split(_)
Split(s) ==
  LET t == LStrip(s) IN
  IF Len(t) = 0 THEN <<>>
  ELSE LET n == FirstIn(t, WHITESPACE)
       IN  <<SubSeq(t, 1, n - 1)>> \o Split(SubSeq(t, n, Len(t)))

\* a truthy str argument: neither None nor ""
Truthy(s) == s # None /\ Len(s) > 0

\* ------------------------------------------------ Bridge Health Prober
\* "list of devices"
LIST_OF_DEVICES == <<"l","i","s","t"," ","o","f"," ","d","e","v","i","c","e","s">>

\* the for loop of parse_adb_devices over the stripped non-blank lines
RECURSIVE ScanAdbLines(_, _, _)
ScanAdbLines(lines, serial, i) ==
  IF i > Len(lines) THEN None
  ELSE LET line == lines[i]
           parts == Split(line)
       IN  IF StartsWith(Lower(line), LIST_OF_DEVICES) THEN ScanAdbLines(lines, serial, i + 1)
           ELSE IF Len(parts) < 2 THEN ScanAdbLines(lines, serial, i + 1)
           ELSE IF Truthy(serial) /\ parts[1] # serial THEN ScanAdbLines(lines, serial, i + 1)
           ELSE parts[2]

\* parse_adb_devices passing over the records that are not healthy
parse_adb_devices_any_record(output, serial) ==
  LET stripped == [i \in 1..Len(output) |-> Strip(output[i])]
      lines == SelectSeq(stripped, LAMBDA l : Len(l) > 0)
      healthy(l) == /\ ~StartsWith(Lower(l), LIST_OF_DEVICES)
                    /\ Len(Split(l)) >= 2
                    /\ Truthy(serial) => Split(l)[1] = serial
                    /\ Split(l)[2] = ADB_HEALTHY_STATE
  IN  IF Len(lines) = 0 THEN None
      ELSE IF \E i \in 1..Len(lines) : healthy(lines[i]) THEN ADB_HEALTHY_STATE
      ELSE ScanAdbLines(lines, serial, 1)

\* parse_adb_devices without the comparison of line 121: the serial is not looked at
parse_adb_devices_unfiltered(output, serial) ==
  LET stripped == [i \in 1..Len(output) |-> Strip(output[i])]
      lines == SelectSeq(stripped, LAMBDA l : Len(l) > 0)
  IN  IF Len(lines) = 0 THEN None ELSE ScanAdbLines(lines, None, 1)

parse_adb_devices(output, serial) ==
  LET stripped == [i \in 1..Len(output) |-> Strip(output[i])]
      lines == SelectSeq(stripped, LAMBDA l : Len(l) > 0)
  IN  IF Len(lines) = 0 THEN None ELSE ScanAdbLines(lines, serial, 1)

\* is_adb_healthy without the comparison of line 136: any listed state counts
is_adb_healthy_any_state(result, serial) ==
  IF result.returncode # 0 THEN FALSE
  ELSE parse_adb_devices(result.stdout, serial) # None

\* the value is_adb_healthy returns for a finished `adb devices`
is_adb_healthy(result, serial) ==
  IF result.returncode # 0 THEN FALSE
  ELSE LET state == parse_adb_devices(result.stdout, serial)
       IN  IF state = None THEN FALSE
           ELSE state = ADB_HEALTHY_STATE

\* a log line: level, format string, and the argument that tells two lines apart
\* (a sequence, empty when the line has none)
Log(level, msg, arg) == [level |-> level, msg |-> msg, arg |-> arg]

\* the line is_adb_healthy logs
is_adb_healthy_log(result, serial) ==
  IF result.returncode # 0 THEN Log("WARNING", "adb devices failed: %s", <<>>)
  ELSE LET state == parse_adb_devices(result.stdout, serial)
       IN  IF state = None THEN Log("INFO", "No ADB device found.", <<>>)
           ELSE IF state = ADB_HEALTHY_STATE THEN Log("INFO", "ADB device is healthy (%s).", state)
           ELSE Log("WARNING", "ADB device unhealthy (%s).", state)

\* ------------------------------------------------------ Device Locator
\* parse_devcon_findall: the (instance_id, name) pairs of the lines holding ":"
RECURSIVE parse_devcon_findall(_)
parse_devcon_findall(output) ==
  IF Len(output) = 0 THEN <<>>
  ELSE LET line == Head(output)
           k == FirstIn(line, {":"})
       IN  IF k > Len(line) THEN parse_devcon_findall(Tail(output))
           ELSE << [id |-> Strip(SubSeq(line, 1, k - 1)),
                    name |-> Strip(SubSeq(line, k + 1, Len(line)))] >>
                \o parse_devcon_findall(Tail(output))

\* a regular expression without repetition: one set of characters per position
HEX_ANY == DIGITS \cup {"A","B","C","D","E","F","a","b","c","d","e","f"}
HEX_UPPER == DIGITS \cup {"A","B","C","D","E","F"}
\* r"USB\\VID_[0-9A-Fa-f]{4}&PID_[0-9A-Fa-f]{4}"
HWID_RE == << {"U"},{"S"},{"B"},{"\\"},{"V"},{"I"},{"D"},{"_"},
              HEX_ANY, HEX_ANY, HEX_ANY, HEX_ANY,
              {"&"},{"P"},{"I"},{"D"},{"_"},
              HEX_ANY, HEX_ANY, HEX_ANY, HEX_ANY >>
\* r"VID_([0-9A-F]{4})"
VID_RE == << {"V"},{"I"},{"D"},{"_"}, HEX_UPPER, HEX_UPPER, HEX_UPPER, HEX_UPPER >>

MatchAt(s, i, re) == /\ i + Len(re) - 1 <= Len(s)
                     /\ \A k \in 1..Len(re) : s[i + k - 1] \in re[k]
\* re.search: the start of the leftmost match, 0 when there is none
Search(s, re) == IF \E i \in 1..Len(s) : MatchAt(s, i, re)
                 THEN CHOOSE i \in 1..Len(s) :
                        MatchAt(s, i, re) /\ \A j \in 1..(i - 1) : ~MatchAt(s, j, re)
                 ELSE 0

\* parse_devcon_hwids: the loop over the lines, with its two locals; `current`
\* is <<>> for None and <<d>> for the dict d
RECURSIVE ScanHwidLines(_, _, _)
ScanHwidLines(output, devices, current) ==
  IF Len(output) = 0
  THEN devices \o current
  ELSE LET line == Head(output)
           rest == Tail(output)
           k == FirstIn(line, {":"})
           m == Search(line, HWID_RE)
       IN  IF Len(Strip(line)) = 0
           THEN ScanHwidLines(rest, devices \o current, <<>>)
           ELSE IF k <= Len(line) /\ ~StartsWith(line, <<" ">>)
           THEN ScanHwidLines(rest, devices,
                  << [id |-> Strip(SubSeq(line, 1, k - 1)),
                      name |-> Strip(SubSeq(line, k + 1, Len(line))),
                      hwids |-> <<>>] >>)
           ELSE IF Len(current) > 0 /\ m > 0
           THEN ScanHwidLines(rest, devices,
                  << [current[1] EXCEPT !.hwids =
                        Append(@, Upper(SubSeq(line, m, m + Len(HWID_RE) - 1)))] >>)
           ELSE ScanHwidLines(rest, devices, current)

parse_devcon_hwids(output) == ScanHwidLines(output, <<>>, <<>>)

\* the name stage comparing the names as they are written
NameMatch_case_sensitive(devices) ==
  LET hit(i) == Contains(devices[i].name, ANDROID_DEVICE_NAME)
  IN  IF \E i \in 1..Len(devices) : hit(i)
      THEN CHOOSE i \in 1..Len(devices) : hit(i) /\ \A j \in 1..(i - 1) : ~hit(j)
      ELSE 0

\* the name stage of find_devcon_device: the first (id, name) whose name holds
\* the device-class name, case-insensitively; 0 when there is none
NameMatch(devices) ==
  LET hit(i) == Contains(Lower(devices[i].name), Lower(ANDROID_DEVICE_NAME))
  IN  IF \E i \in 1..Len(devices) : hit(i)
      THEN CHOOSE i \in 1..Len(devices) : hit(i) /\ \A j \in 1..(i - 1) : ~hit(j)
      ELSE 0

\* the vendor-ID stage: the first device one of whose hwids has an allowlisted VID
VidMatch(devices) ==
  LET vidOk(hwid) == LET v == Search(hwid, VID_RE)
                     IN  v > 0 /\ SubSeq(hwid, v + 4, v + 7) \in COMMON_ANDROID_VIDS
      hit(i) == \E h \in 1..Len(devices[i].hwids) : vidOk(devices[i].hwids[h])
  IN  IF \E i \in 1..Len(devices) : hit(i)
      THEN CHOOSE i \in 1..Len(devices) : hit(i) /\ \A j \in 1..(i - 1) : ~hit(j)
      ELSE 0

\* find_devcon_device up to its first return: [found, id], found FALSE when the
\* function goes on to `devcon hwids`
find_by_name(findall) ==
  IF findall.returncode = 0
  THEN LET devices == parse_devcon_findall(findall.stdout)
           n == NameMatch(devices)
       IN  IF n > 0 THEN [found |-> TRUE, id |-> devices[n].id]
           ELSE [found |-> FALSE, id |-> None]
  ELSE [found |-> FALSE, id |-> None]

\* find_devcon_device from `devcon hwids` on: the instance id, or None
find_by_vid(hwids_result) ==
  IF hwids_result.returncode # 0 THEN None
  ELSE LET devices == parse_devcon_hwids(hwids_result.stdout)
           n == VidMatch(devices)
       IN  IF n > 0 THEN devices[n].id ELSE None

\* ------------------------------------------- what the environment may answer
\* 'List of devices attached'
A_HEADER == <<"L","i","s","t"," ","o","f"," ","d","e","v","i","c","e","s"," ","a","t","t","a","c","h","e","d">>
\* 'S1\tdevice'
A_S1_DEVICE == <<"S","1","\t","d","e","v","i","c","e">>
\* 'S1\toffline'
A_S1_OFFLINE == <<"S","1","\t","o","f","f","l","i","n","e">>
\* 'S2\tdevice'
A_S2_DEVICE == <<"S","2","\t","d","e","v","i","c","e">>
\* 'S1'
SERIAL_S1 == <<"S","1">>
\* 'USB\\ROOT_HUB30\\4 : USB Root Hub'
D_HUB == <<"U","S","B","\\","R","O","O","T","_","H","U","B","3","0","\\","4"," ",":"," ","U","S","B"," ","R","o","o","t"," ","H","u","b">>
\* 'USB\\VID_18D1&PID_4EE7\\7 : ANDROID Composite ADB Interface'
D_ADB == <<"U","S","B","\\","V","I","D","_","1","8","D","1","&","P","I","D","_","4","E","E","7","\\","7"," ",":"," ","A","N","D","R","O","I","D"," ","C","o","m","p","o","s","i","t","e"," ","A","D","B"," ","I","n","t","e","r","f","a","c","e">>
\* 'USB\\VID_18D1&PID_4EE7\\7 : Pixel 7'
D_PIXEL == <<"U","S","B","\\","V","I","D","_","1","8","D","1","&","P","I","D","_","4","E","E","7","\\","7"," ",":"," ","P","i","x","e","l"," ","7">>
\* 'USB\\VID_1234&PID_0001\\9 : android composite adb interface'
D_GENERIC == <<"U","S","B","\\","V","I","D","_","1","2","3","4","&","P","I","D","_","0","0","0","1","\\","9"," ",":"," ","a","n","d","r","o","i","d"," ","c","o","m","p","o","s","i","t","e"," ","a","d","b"," ","i","n","t","e","r","f","a","c","e">>
\* ' : Android Composite ADB Interface'
D_NOID == <<" ",":"," ","A","n","d","r","o","i","d"," ","C","o","m","p","o","s","i","t","e"," ","A","D","B"," ","I","n","t","e","r","f","a","c","e">>
\* '    USB\\VID_8087&PID_0024&REV_0000'
D_HWID_INTEL == <<" "," "," "," ","U","S","B","\\","V","I","D","_","8","0","8","7","&","P","I","D","_","0","0","2","4","&","R","E","V","_","0","0","0","0">>
\* '    USB\\VID_18d1&PID_4ee7&REV_0440'
D_HWID_GOOGLE == <<" "," "," "," ","U","S","B","\\","V","I","D","_","1","8","d","1","&","P","I","D","_","4","e","e","7","&","R","E","V","_","0","4","4","0">>
\* ''
D_BLANK == <<>>

\* the CompletedProcess of a finished child, with the verb it ran
Result(verb, returncode, stdout) == [verb |-> verb, returncode |-> returncode, stdout |-> stdout]

\* results of `adb devices`: exit code and the lines of stdout
AdbDevicesResults ==
  { Result("devices", 0, o) :
      o \in { <<A_HEADER>>,
              <<A_HEADER, A_S1_DEVICE>>,
              <<A_HEADER, A_S1_OFFLINE>>,
              <<A_HEADER, A_S2_DEVICE, A_S1_OFFLINE>>,
              <<A_HEADER, A_S1_OFFLINE, A_S2_DEVICE>>,
              <<A_HEADER, A_S2_DEVICE>> } }
  \cup { Result("devices", 1, <<A_HEADER, A_S1_DEVICE>>) }

\* results of `devcon findall =usb`
FindallResults ==
  { Result("findall", 0, <<D_HUB, D_ADB>>),
    Result("findall", 0, <<D_HUB, D_PIXEL>>),
    Result("findall", 0, <<D_NOID>>),
    Result("findall", 0, <<D_PIXEL, D_GENERIC, D_ADB>>),
    Result("findall", 0, <<D_GENERIC, D_PIXEL>>),
    Result("findall", 1, <<D_HUB, D_ADB>>) }

\* results of `devcon hwids =usb`
HwidsResults ==
  { Result("hwids", 0, <<D_HUB, D_HWID_INTEL, D_BLANK, D_PIXEL, D_HWID_GOOGLE>>),
    Result("hwids", 0, <<D_HUB, D_HWID_INTEL>>),
    Result("hwids", 0, <<D_NOID, D_HWID_GOOGLE>>),
    Result("hwids", 1, <<>>) }

ExitCodes == {0, 1}
Durations == 0..MaxDur
SerialArgs == {None, SERIAL_S1}
TimeoutArgs == 0..MaxTimeout

\* what the parsers make of each result the environment can give, computed once
HealthyOf == [r \in AdbDevicesResults |-> [x \in SerialArgs |-> is_adb_healthy(r, x)]]
HealthLogOf == [r \in AdbDevicesResults |-> [x \in SerialArgs |-> is_adb_healthy_log(r, x)]]
ByNameOf == [r \in FindallResults |-> find_by_name(r)]
ByVidOf == [r \in HwidsResults |-> find_by_vid(r)]

\* ---------------------------------------------------------------- state
VARIABLES
  host,         \* what the gates of main find: [admin, adb, devcon], the values of
                \* is_windows_admin() and of the two calls of resolve_executable
  args,         \* the parsed command line: [timeout, serial, dry_run]
  pc,           \* where main() is
  phase,        \* 0 before the first soft reset, 1 in and after it, 2 in and after the second
  softIdx,      \* soft_reset: index of the next command of ADB_SOFT_RESET_COMMANDS
  softRcs,      \* soft_reset: the exit codes its loop has seen, until the poll starts
  clock,        \* time.time()
  deadline,     \* poll_until_healthy: its local
  instance_id,  \* main: what find_devcon_device returned
  cmds,         \* every child process started so far, in order
  logged,       \* the log lines the latest step wrote
  exitCode,     \* main's return value, -1 while it runs
  outcome,      \* the return statement taken, by the name the design gives it
  last,         \* the result of the most recent finished child process
  polls,        \* per call of poll_until_healthy: its probes, the seconds they took, its
                \* result, and whether the deadline had passed when it returned False
  probes,       \* the value of every finished call of is_adb_healthy, in order
  hardRcs       \* hard_reset: the exit codes of the devcon commands it ran

vars == <<host, args, pc, phase, softIdx, softRcs, clock, deadline, instance_id, cmds, logged,
          exitCode, outcome, last, polls, probes, hardRcs>>

Cmd(exe, verb, arg) == [exe |-> exe, verb |-> verb, arg |-> arg]
NoResult == Result("", -1, <<>>)

Init ==
  /\ host \in [admin : BOOLEAN, adb : BOOLEAN, devcon : BOOLEAN]
  /\ args \in [timeout : TimeoutArgs, serial : SerialArgs, dry_run : BOOLEAN]
  /\ pc = "is_windows_admin"
  /\ phase = 0
  /\ softIdx = 0
  /\ softRcs = <<>>
  /\ clock = 0
  /\ deadline = 0
  /\ instance_id = None
  /\ cmds = <<>>
  /\ logged = {}
  /\ exitCode = -1
  /\ outcome = "running"
  /\ last = NoResult
  /\ polls = <<>>
  /\ probes = <<>>
  /\ hardRcs = <<>>

\* `return code` in main
Return(code, what) == pc' = "done" /\ exitCode' = code /\ outcome' = what

\* subprocess.run(..., timeout=None) on a child that never exits: main never resumes
Hangs(cmd) ==
  /\ pc' = "hung"
  /\ cmds' = Append(cmds, cmd)
  /\ logged' = {}
  /\ UNCHANGED <<host, args, phase, softIdx, softRcs, clock, deadline, instance_id, exitCode, outcome, last, polls, probes, hardRcs>>

\* run_command returning after d seconds with `result`
Ran(cmd, result, d) ==
  /\ cmds' = Append(cmds, cmd)
  /\ clock' = clock + d
  /\ last' = result

\* main letting a run without administrator rights through
main_not_admin_never(admin) == FALSE

\* main, line 234: is the run refused for want of administrator rights
main_not_admin(admin) == ~admin

\* main, lines 234-236
CheckAdmin ==
  /\ pc = "is_windows_admin"
  /\ IF main_not_admin(host.admin)
     THEN /\ logged' = {Log("ERROR", "Administrator privileges are required on Windows.", <<>>)}
          /\ Return(3, "NotAdmin")
     ELSE /\ pc' = "resolve_executable"
          /\ logged' = {}
          /\ UNCHANGED <<exitCode, outcome>>
  /\ UNCHANGED <<host, args, phase, softIdx, softRcs, clock, deadline, instance_id, cmds, last, polls, probes, hardRcs>>

\* main, lines 238-245
ResolveTools ==
  /\ pc = "resolve_executable"
  /\ LET adb_found == host.adb
         devcon_found == host.devcon
     IN
       IF ~adb_found
       THEN /\ logged' = {Log("ERROR", "adb.exe not found at %s", <<>>)}
            /\ Return(2, "ToolNotFound")
       ELSE IF ~devcon_found
       THEN /\ logged' = {Log("ERROR", "devcon.exe not found at %s", <<>>)}
            /\ Return(2, "ToolNotFound")
       ELSE /\ pc' = "is_adb_healthy"
            /\ logged' = {}
            /\ UNCHANGED <<exitCode, outcome>>
  /\ UNCHANGED <<host, args, phase, softIdx, softRcs, clock, deadline, instance_id, cmds, last, polls, probes, hardRcs>>

\* main without the return of line 248
main_returns_healthy_never(healthy) == FALSE

\* main, lines 247-248: does main return 0 on the first probe's value
main_returns_healthy(healthy) == healthy

\* main, lines 247-250: the first probe
InitialProbe ==
  /\ pc = "is_adb_healthy"
  /\ \/ Hangs(Cmd("adb", "devices", None))
     \/ \E result \in AdbDevicesResults :
          LET healthy == HealthyOf[result][args.serial]
              line == HealthLogOf[result][args.serial]
          IN  \E d \in Durations :
                /\ Ran(Cmd("adb", "devices", None), result, d)
                /\ probes' = Append(probes, healthy)
                /\ IF main_returns_healthy(healthy)
                   THEN /\ logged' = {line}
                        /\ Return(0, "AlreadyHealthy")
                        /\ UNCHANGED <<phase, softIdx, softRcs>>
                   ELSE /\ logged' = {line, Log("INFO", "Attempting soft reset of ADB server.", <<>>)}
                        /\ pc' = "soft_reset"
                        /\ phase' = 1
                        /\ softIdx' = 1
                        /\ softRcs' = <<>>
                        /\ UNCHANGED <<exitCode, outcome>>
                /\ UNCHANGED <<host, args, deadline, instance_id, polls, hardRcs>>

\* soft_reset leaving its loop one command short
soft_reset_two_commands(i, rc) == i < Len(ADB_SOFT_RESET_COMMANDS) - 1

\* soft_reset leaving its loop at the first command that fails
soft_reset_stops_on_failure(i, rc) == i < Len(ADB_SOFT_RESET_COMMANDS) /\ rc = 0

\* soft_reset: does its loop go on after command number i exited with rc
soft_reset_continues(i, rc) == i < Len(ADB_SOFT_RESET_COMMANDS)

\* soft_reset: one turn of its loop; after the last, main calls poll_until_healthy
SoftResetCommand ==
  /\ pc = "soft_reset"
  /\ \/ Hangs(Cmd("adb", ADB_SOFT_RESET_COMMANDS[softIdx], None))
     \/ \E rc \in ExitCodes, d \in Durations :
          /\ Ran(Cmd("adb", ADB_SOFT_RESET_COMMANDS[softIdx], None),
                 Result(ADB_SOFT_RESET_COMMANDS[softIdx], rc, <<>>), d)
          /\ logged' = IF rc # 0
                       THEN {Log("WARNING", "adb %s failed: %s", <<ADB_SOFT_RESET_COMMANDS[softIdx]>>)}
                       ELSE {}
          /\ IF soft_reset_continues(softIdx, rc)
             THEN softIdx' = softIdx + 1 /\ pc' = pc
             ELSE softIdx' = 0 /\ pc' = "poll_until_healthy"
          /\ softRcs' = Append(softRcs, rc)
          /\ UNCHANGED <<host, args, phase, deadline, instance_id, exitCode, outcome, polls, probes, hardRcs>>

\* the deadline taken as the timeout itself, not counted from the entry time
poll_deadline_absolute(now, timeout) == timeout

\* poll_until_healthy, line 222
poll_deadline(now, timeout) == now + timeout

PollEnter ==
  /\ pc = "poll_until_healthy"
  /\ deadline' = poll_deadline(clock, args.timeout)
  /\ polls' = Append(polls, [probes |-> 0, took |-> 0, result |-> "polling", expired |-> FALSE])
  /\ softRcs' = <<>>
  /\ pc' = "poll_while"
  /\ logged' = {}
  /\ UNCHANGED <<host, args, phase, softIdx, clock, instance_id, cmds, exitCode, outcome, last, probes, hardRcs>>

\* the record of the running call of poll_until_healthy, updated
PollsWith(result) == [polls EXCEPT ![Len(polls)].result = result]

\* the loop condition letting a probe start at the deadline itself
poll_continues_inclusive(now, dl) == now <= dl

\* the loop condition asking for room for one more sleep before the deadline
poll_continues_early(now, dl) == now + PollInterval < dl

\* the loop condition with the comparison turned around
poll_continues_inverted(now, dl) == now > dl

\* poll_until_healthy, line 223: the loop condition
poll_continues(now, dl) == now < dl

\* main going back to the locator after the second poll failed
AfterPollFailed_restarts ==
  /\ logged' = {Log("WARNING", "Soft reset did not recover device; attempting hard reset.", <<>>)}
  /\ pc' = "find_devcon_device"
  /\ UNCHANGED <<exitCode, outcome>>

\* main, lines 252-256 and 265-269: what follows a poll that returned False
AfterPollFailed ==
  IF phase = 1
  THEN /\ logged' = {Log("WARNING", "Soft reset did not recover device; attempting hard reset.", <<>>)}
       /\ pc' = "find_devcon_device"
       /\ UNCHANGED <<exitCode, outcome>>
  ELSE /\ logged' = {Log("ERROR", "Device did not recover before timeout.", <<>>)}
       /\ Return(1, "TimedOut")

\* poll_until_healthy, lines 223 and 227
PollWhile ==
  /\ pc = "poll_while"
  /\ IF poll_continues(clock, deadline)
     THEN /\ pc' = "poll_probe"
          /\ logged' = {}
          /\ UNCHANGED <<polls, exitCode, outcome, deadline>>
     ELSE /\ polls' = [PollsWith("timeout") EXCEPT ![Len(polls)].expired = (clock >= deadline)]
          /\ deadline' = 0
          /\ AfterPollFailed
  /\ UNCHANGED <<host, args, phase, softIdx, softRcs, clock, instance_id, cmds, last, probes, hardRcs>>

\* poll_until_healthy, lines 224-225, and main's return when it returns True
PollProbe ==
  /\ pc = "poll_probe"
  /\ \/ Hangs(Cmd("adb", "devices", None))
     \/ \E result \in AdbDevicesResults :
          LET healthy == HealthyOf[result][args.serial]
              line == HealthLogOf[result][args.serial]
          IN  \E d \in Durations :
                /\ Ran(Cmd("adb", "devices", None), result, d)
                /\ probes' = Append(probes, healthy)
                /\ logged' = {line}
                /\ IF healthy
                   THEN /\ polls' = [PollsWith("healthy") EXCEPT ![Len(polls)].probes = @ + 1,
                                                                  ![Len(polls)].took = @ + d]
                        /\ deadline' = 0
                        /\ Return(0, IF phase = 1 THEN "RecoveredBySoftReset"
                                                  ELSE "RecoveredByHardReset")
                   ELSE /\ polls' = [polls EXCEPT ![Len(polls)].probes = @ + 1,
                                                  ![Len(polls)].took = @ + d]
                        /\ pc' = "poll_sleep"
                        /\ UNCHANGED <<exitCode, outcome, deadline>>
                /\ UNCHANGED <<host, args, phase, softIdx, softRcs, instance_id, hardRcs>>

\* poll_until_healthy, line 226
PollSleep ==
  /\ pc = "poll_sleep"
  /\ clock' = clock + PollInterval
  /\ pc' = "poll_while"
  /\ logged' = {}
  /\ UNCHANGED <<host, args, phase, softIdx, softRcs, deadline, instance_id, cmds, exitCode, outcome, last, polls, probes, hardRcs>>

\* hard_reset without its dry-run branch
hard_reset_skips_never(dry_run) == FALSE

\* hard_reset, lines 205-208: does it return True without running devcon
hard_reset_skips(dry_run) == dry_run

\* main without the check of line 257
main_not_found_unchecked(id) == FALSE

\* main, line 257: is the locator's value taken as "not found"
main_not_found(id) == ~Truthy(id)

\* main, lines 256-262 once find_devcon_device has returned id (having logged
\* `lines`), up to the first child process of hard_reset
Located(id, lines) ==
  /\ instance_id' = id
  /\ IF main_not_found(id)
     THEN /\ logged' = lines \cup
                 {Log("ERROR", "Unable to locate Android USB device for hard reset.", <<>>)}
          /\ Return(1, "DeviceNotFound")
          /\ UNCHANGED <<phase, softIdx, softRcs>>
     ELSE IF hard_reset_skips(args.dry_run)
     THEN /\ logged' = lines \cup
                 { Log("INFO", "Dry run: would disable %s", id),
                   Log("INFO", "Dry run: would enable %s", id) }
          /\ pc' = "soft_reset"
          /\ phase' = 2
          /\ softIdx' = 1
          /\ softRcs' = <<>>
          /\ UNCHANGED <<exitCode, outcome>>
     ELSE /\ logged' = lines
          /\ pc' = "devcon_disable"
          /\ UNCHANGED <<exitCode, outcome, phase, softIdx, softRcs>>

\* find_devcon_device, lines 183-189
Findall ==
  /\ pc = "find_devcon_device"
  /\ \/ Hangs(Cmd("devcon", "findall", None))
     \/ \E result \in FindallResults, d \in Durations :
          /\ Ran(Cmd("devcon", "findall", None), result, d)
          /\ LET m == ByNameOf[result]
             IN  IF m.found
                 THEN Located(m.id, {Log("INFO", "Matched device by name: %s", <<>>)})
                 ELSE /\ pc' = "devcon_hwids"
                      /\ logged' = {}
                      /\ UNCHANGED <<instance_id, exitCode, outcome, phase, softIdx, softRcs>>
          /\ UNCHANGED <<host, args, deadline, polls, probes, hardRcs>>

\* find_devcon_device, lines 191-201
Hwids ==
  /\ pc = "devcon_hwids"
  /\ \/ Hangs(Cmd("devcon", "hwids", None))
     \/ \E result \in HwidsResults, d \in Durations :
          /\ Ran(Cmd("devcon", "hwids", None), result, d)
          /\ LET id == ByVidOf[result]
             IN  Located(id, IF result.returncode # 0
                             THEN {Log("ERROR", "devcon hwids failed: %s", <<>>)}
                             ELSE IF id # None
                             THEN {Log("INFO", "Matched device by VID/PID: %s", <<>>)}
                             ELSE {})
          /\ UNCHANGED <<host, args, deadline, polls, probes, hardRcs>>

\* hard_reset ignoring the exit code of `devcon disable`
disable_failed_ignored(rc) == FALSE

\* hard_reset, lines 210-212: does it return False after `devcon disable` exited with rc
disable_failed(rc) == rc # 0

\* hard_reset, lines 209-212, and main's return when it fails
Disable ==
  /\ pc = "devcon_disable"
  /\ \/ Hangs(Cmd("devcon", "disable", instance_id))
     \/ \E rc \in ExitCodes, d \in Durations :
          /\ Ran(Cmd("devcon", "disable", instance_id), Result("disable", rc, <<>>), d)
          /\ hardRcs' = Append(hardRcs, rc)
          /\ IF disable_failed(rc)
             THEN /\ logged' = {Log("ERROR", "devcon disable failed: %s", <<>>)}
                  /\ Return(1, "HardResetFailed")
             ELSE /\ pc' = "settle"
                  /\ logged' = {}
                  /\ UNCHANGED <<exitCode, outcome>>
          /\ UNCHANGED <<host, args, phase, softIdx, softRcs, deadline, instance_id, polls, probes>>

\* hard_reset, line 213
Settle ==
  /\ pc = "settle"
  /\ clock' = clock + SettleDelay
  /\ pc' = "devcon_enable"
  /\ logged' = {}
  /\ UNCHANGED <<host, args, phase, softIdx, softRcs, deadline, instance_id, cmds, exitCode, outcome, last, polls, probes, hardRcs>>

\* hard_reset ignoring the exit code of `devcon enable`
enable_failed_ignored(rc) == FALSE

\* hard_reset, lines 215-217: does it return False after `devcon enable` exited with rc
enable_failed(rc) == rc # 0

\* hard_reset, lines 214-218, and main's lines 261-264
Enable ==
  /\ pc = "devcon_enable"
  /\ \/ Hangs(Cmd("devcon", "enable", instance_id))
     \/ \E rc \in ExitCodes, d \in Durations :
          /\ Ran(Cmd("devcon", "enable", instance_id), Result("enable", rc, <<>>), d)
          /\ hardRcs' = Append(hardRcs, rc)
          /\ IF enable_failed(rc)
             THEN /\ logged' = {Log("ERROR", "devcon enable failed: %s", <<>>)}
                  /\ Return(1, "HardResetFailed")
                  /\ UNCHANGED <<phase, softIdx, softRcs>>
             ELSE /\ pc' = "soft_reset"
                  /\ phase' = 2
                  /\ softIdx' = 1
                  /\ softRcs' = <<>>
                  /\ logged' = {}
                  /\ UNCHANGED <<exitCode, outcome>>
          /\ UNCHANGED <<host, args, deadline, instance_id, polls, probes>>

Next == CheckAdmin \/ ResolveTools \/ InitialProbe \/ SoftResetCommand
        \/ PollEnter \/ PollWhile \/ PollProbe \/ PollSleep
        \/ Findall \/ Hwids \/ Disable \/ Settle \/ Enable
Spec == Init /\ [][Next]_vars

\* The runs in which every child process exits: no call of subprocess.run is left
\* waiting, and main, a sequential program, always takes its next step.
Returning == Next /\ pc' # "hung"
SpecReturning == Init /\ [][Returning]_vars /\ WF_vars(Returning)

\* ------------------------------------------------------------ properties
Verbs == [i \in 1..Len(cmds) |-> cmds[i].verb]
Count(verb) == Cardinality({i \in 1..Len(cmds) : cmds[i].verb = verb})
DevconVerbs == {"findall", "hwids", "disable", "enable"}
SoftVerbs == {"kill-server", "start-server", "reconnect"}

\* The records of a device listing: the lines that are not the header and split
\* into at least two fields; the selected one is the first whose serial is the
\* filter, or the first when there is no filter.
RecordLines(stdout) ==
  { i \in 1..Len(stdout) : /\ Len(Split(stdout[i])) >= 2
                           /\ ~StartsWith(Lower(Strip(stdout[i])), LIST_OF_DEVICES) }
SelectedLines(stdout, serial) ==
  { i \in RecordLines(stdout) : Truthy(serial) => Split(stdout[i])[1] = serial }
SelectedState(stdout, serial) ==
  IF SelectedLines(stdout, serial) = {} THEN None
  ELSE LET i == CHOOSE k \in SelectedLines(stdout, serial) :
                   \A j \in SelectedLines(stdout, serial) : k <= j
       IN  Split(stdout[i])[2]

\* SelectedState of every listing the environment can give, computed once.
SelectedStateOf ==
  [r \in AdbDevicesResults |-> [x \in SerialArgs |-> SelectedState(r.stdout, x)]]

\* C1: exit code 0 is returned only when the latest child process of the run was
\* an `adb devices` that exited 0 and whose selected record is in state "device":
\* no other command lies between that probe and the return, dry run or not.
C1_NoOptimisticSuccess ==
  exitCode = 0 =>
    /\ Len(cmds) > 0
    /\ cmds[Len(cmds)] = Cmd("adb", "devices", None)
    /\ last.verb = "devices"
    /\ last.returncode = 0
    /\ SelectedStateOf[last][args.serial] = ADB_HEALTHY_STATE
    /\ pc = "done"

C1_Witness ==
  /\ exitCode = 0
  /\ args.dry_run
  /\ phase = 2
  /\ Count("findall") = 1

\* C2: the locator and the hard reset (the disable command, or the dry-run log
\* that stands for it) are reached only after the first probe was unhealthy, the
\* three soft-reset commands were issued and the first poll returned False with
\* its deadline passed; every devcon command comes after all of these.
HardPathEntered ==
  \/ pc \in {"find_devcon_device", "devcon_hwids", "devcon_disable", "settle", "devcon_enable"}
  \/ phase = 2
  \/ \E i \in 1..Len(cmds) : cmds[i].exe = "devcon"

C2_HardResetOnlyAfterSoftAndPoll ==
  HardPathEntered =>
    /\ Len(probes) >= 1 /\ probes[1] = FALSE
    /\ Len(cmds) >= 4
    /\ SubSeq(Verbs, 1, 4) = <<"devices">> \o ADB_SOFT_RESET_COMMANDS
    /\ Len(polls) >= 1
    /\ polls[1].result = "timeout"
    /\ polls[1].expired
    /\ \A i \in 5..(4 + polls[1].probes) : i <= Len(cmds) /\ cmds[i].verb = "devices"
    /\ \A i \in 1..Len(cmds) : cmds[i].exe = "devcon" => i > 4 + polls[1].probes

C2_Witness ==
  /\ Count("disable") = 1
  /\ polls[1].probes = 2

\* The probes made once the hard reset is over: those after the first probe and
\* the probes of the first poll.
ProbesAfterHardReset == { i \in 1..Len(probes) : i > 1 + polls[1].probes }
ScenarioC ==
  /\ pc = "done"
  /\ hardRcs = <<0, 0>>
  /\ \A i \in 1..Len(probes) : i \notin ProbesAfterHardReset => probes[i] = FALSE
  /\ \A i \in ProbesAfterHardReset : probes[i] = TRUE
EndsRecoveredByHardReset ==
  /\ outcome = "RecoveredByHardReset"
  /\ exitCode = 0
  /\ Count("disable") = 1
  /\ Count("enable") = 1

\* C3 as claimed: for every timeout, a run whose probes before the hard reset are
\* all unhealthy, whose locator matched, whose disable and enable exited 0 and
\* whose probes after the hard reset are all healthy ends RecoveredByHardReset,
\* exit code 0, with one disable and one enable.
C3_Original == ScenarioC => EndsRecoveredByHardReset

\* C3 amended: the same for every timeout of at least one second (with a timeout
\* of 0 or less the second poll makes no probe and the run ends TimedOut).
C3_RecoveredByHardReset == (ScenarioC /\ args.timeout >= 1) => EndsRecoveredByHardReset

C3_Witness ==
  /\ ScenarioC
  /\ args.timeout >= 1
  /\ polls[1].probes >= 1
  /\ ProbesAfterHardReset # {}

\* The prober said unhealthy, unhealthy, healthy, and the run is over; the poll
\* interval is shorter than the timeout.
ScenarioUnhealthyTwice ==
  /\ pc = "done"
  /\ probes = <<FALSE, FALSE, TRUE>>
  /\ PollInterval < args.timeout
EndsRecoveredBySoftReset ==
  /\ outcome = "RecoveredBySoftReset"
  /\ exitCode = 0
  /\ phase = 1
  /\ instance_id = None
  /\ \A i \in 1..Len(cmds) : cmds[i].exe # "devcon"

\* C4 as claimed: with the prober unhealthy on its first two calls and healthy on
\* its third and a timeout above the 2-second interval, the run ends
\* RecoveredBySoftReset without entering the locator or the hard reset, whatever
\* time the commands take.
C4_Original == ScenarioUnhealthyTwice => EndsRecoveredBySoftReset

\* C4 amended: the same provided the first poll probe and the sleep after it end
\* before the deadline (its duration + 2 < timeout), whatever time the first probe
\* and the soft-reset commands take.  polls[1].took is that duration when the
\* first poll made a single probe; when it made two, the third call was its own.
C4_RecoveredBySoftReset ==
  ( /\ ScenarioUnhealthyTwice
    /\ \/ polls[1].probes >= 2
       \/ polls[1].took + PollInterval < args.timeout )
  => EndsRecoveredBySoftReset

\* a run of the scenario in which the commands before the poll took time
C4_Witness ==
  /\ ScenarioUnhealthyTwice
  /\ EndsRecoveredBySoftReset
  /\ clock > polls[1].took + PollInterval

\* C5: when the first probe is healthy the run is over at once: AlreadyHealthy,
\* exit code 0, and `adb devices` is the only child process ever started.
C5_AlreadyHealthy ==
  (Len(probes) >= 1 /\ probes[1] = TRUE) =>
    /\ pc = "done"
    /\ outcome = "AlreadyHealthy"
    /\ exitCode = 0
    /\ cmds = << Cmd("adb", "devices", None) >>
    /\ \A v \in SoftVerbs \cup DevconVerbs : Count(v) = 0

C5_Witness ==
  /\ outcome = "AlreadyHealthy"
  /\ args.serial = SERIAL_S1
  /\ SelectedState(last.stdout, args.serial) = ADB_HEALTHY_STATE

\* C6: when the locator has gone through both stages and returned None, the run
\* is over with DeviceNotFound, exit code 1: no disable, no enable, each
\* enumeration ran once, and `devcon hwids` is the last child process (no second
\* soft reset, no further probe).
C6_DeviceNotFound ==
  (last.verb = "hwids" /\ instance_id = None) =>
    /\ pc = "done"
    /\ outcome = "DeviceNotFound"
    /\ exitCode = 1
    /\ Count("disable") = 0 /\ Count("enable") = 0
    /\ Count("findall") = 1 /\ Count("hwids") = 1
    /\ cmds[Len(cmds)].verb = "hwids"
    /\ \A v \in SoftVerbs : Count(v) = 1
    /\ Len(polls) = 1
    /\ Count("devices") = 1 + polls[1].probes
    /\ \A i \in 1..Len(probes) : probes[i] = FALSE

C6_Witness ==
  /\ last.verb = "hwids"
  /\ instance_id = None
  /\ last.returncode = 0
  /\ polls[1].probes = 2

\* C7: outside dry run, once `devcon disable` has exited non-zero the run is over
\* with HardResetFailed, exit code 1, and no `devcon enable` is ever started.
C7_DisableFailedNoEnable ==
  (Len(hardRcs) >= 1 /\ hardRcs[1] # 0) =>
    /\ ~args.dry_run
    /\ pc = "done"
    /\ outcome = "HardResetFailed"
    /\ exitCode = 1
    /\ Count("enable") = 0
    /\ Count("disable") = 1
    /\ cmds[Len(cmds)].verb = "disable"

C7_Witness ==
  /\ hardRcs = <<1>>
  /\ pc = "done"

\* What the run reports: its exit code and the log lines of its last step.
Report == <<exitCode, logged>>
EnableFailedReport == <<1, {Log("ERROR", "devcon enable failed: %s", <<>>)}>>
TimedOutReport == <<1, {Log("ERROR", "Device did not recover before timeout.", <<>>)}>>

\* C8: when disable exited 0 and enable exits non-zero the run is over at once
\* (one enable, nothing after it, no second soft reset or poll), and what it
\* reports differs from what a run reports whose second poll timed out.
C8_EnableFailedTerminal ==
  /\ hardRcs = <<0, 1>> =>
       /\ pc = "done"
       /\ exitCode = 1
       /\ Count("enable") = 1
       /\ cmds[Len(cmds)].verb = "enable"
       /\ phase = 1
       /\ Len(polls) = 1
       /\ \A v \in SoftVerbs : Count(v) = 1
       /\ Report = EnableFailedReport
  /\ (pc = "done" /\ Len(polls) = 2 /\ polls[2].result = "timeout") =>
       Report = TimedOutReport
  /\ EnableFailedReport # TimedOutReport

C8_Witness ==
  /\ hardRcs = <<0, 1>>
  /\ pc = "done"

\* The child processes started after the last devcon command: the three
\* soft-reset commands in order, then probes only.
AfterHardReset ==
  LET k == CHOOSE i \in 0..Len(cmds) :
             /\ i > 0 => cmds[i].exe = "devcon"
             /\ \A j \in (i + 1)..Len(cmds) : cmds[j].exe # "devcon"
  IN  SubSeq(Verbs, k + 1, Len(cmds))
SecondCycle ==
  /\ phase = 2
  /\ pc \in {"soft_reset", "poll_until_healthy", "poll_while", "poll_probe",
             "poll_sleep", "done", "hung"}
  /\ LET tail == AfterHardReset
     IN  /\ \A i \in 1..Len(tail) :
              tail[i] = IF i <= 3 THEN ADB_SOFT_RESET_COMMANDS[i] ELSE "devices"
         /\ pc \notin {"soft_reset", "hung"} => Len(tail) >= 3
  /\ pc = "done" => outcome \in {"RecoveredByHardReset", "TimedOut"} /\ Len(polls) = 2

\* C9: in a dry run no `devcon disable` and no `devcon enable` is ever started
\* and hard_reset cannot fail; once a device is located the run goes on with the
\* second soft reset and the second poll, as it does after a hard reset whose
\* two commands exited 0.
C9_DryRun ==
  /\ args.dry_run =>
       /\ Count("disable") = 0 /\ Count("enable") = 0
       /\ hardRcs = <<>>
       /\ pc \notin {"devcon_disable", "settle", "devcon_enable"}
       /\ outcome # "HardResetFailed"
       /\ Truthy(instance_id) => SecondCycle
  /\ hardRcs = <<0, 0>> => SecondCycle

C9_Witness ==
  /\ args.dry_run
  /\ pc = "done"
  /\ outcome = "TimedOut"
  /\ Len(AfterHardReset) > 3

\* C10: a soft reset issues kill-server, start-server, reconnect in this order
\* whatever their exit codes: while it runs the commands issued are a prefix of
\* the three, after the third the poll follows, and no exit code ends it early.
C10_SoftResetAllThree ==
  /\ pc = "soft_reset" =>
       /\ softIdx \in 1..Len(ADB_SOFT_RESET_COMMANDS)
       /\ Len(softRcs) = softIdx - 1
       /\ Len(cmds) >= softIdx - 1
       /\ SubSeq(Verbs, Len(cmds) - softIdx + 2, Len(cmds))
            = SubSeq(ADB_SOFT_RESET_COMMANDS, 1, softIdx - 1)
  /\ Len(softRcs) \in 1..2 => pc \in {"soft_reset", "hung"}
  /\ Len(softRcs) = 3 =>
       /\ pc = "poll_until_healthy"
       /\ SubSeq(Verbs, Len(cmds) - 2, Len(cmds)) = ADB_SOFT_RESET_COMMANDS
  /\ pc \notin {"soft_reset", "hung"} => \A v \in SoftVerbs : Count(v) = phase

C10_Witness ==
  /\ pc = "poll_until_healthy"
  /\ softRcs = <<1, 1, 0>>
  /\ phase = 2

\* C11: a child process that does not exit is ended by a per-command timeout,
\* so the run is never left waiting on it: main is never blocked inside
\* subprocess.run, in whatever phase the child was started.
C11_HungChildIsBounded == pc # "hung"

\* The outcomes of the recovery state machine.
RecoveryOutcomes ==
  {"AlreadyHealthy", "RecoveredBySoftReset", "RecoveredByHardReset",
   "DeviceNotFound", "HardResetFailed", "TimedOut"}

\* Only the soft reset and the poll are entered twice; the first probe, each
\* enumeration, disable and enable are entered once at most.
NoRestart ==
  /\ \A v \in SoftVerbs : Count(v) <= 2
  /\ Len(polls) <= 2
  /\ \A v \in DevconVerbs : Count(v) <= 1
  /\ Count("devices") <= 1 + Len(probes)
  /\ Len(polls) = 0 => Count("devices") <= 1
  /\ pc = "done" <=> exitCode # -1
  /\ pc = "done" <=> outcome # "running"

\* C12 as stated: when every child process returns, every run ends, with one of
\* the six recovery outcomes, and without entering a state again except the soft
\* reset and the poll (twice at most).
C12_Original ==
  /\ [](pc = "done" => outcome \in RecoveryOutcomes)
  /\ []NoRestart
  /\ <>(pc = "done")

\* C12: when every child process returns, every run ends; a run that passed the
\* privilege check and found both tools ends with exactly one of the six recovery
\* outcomes; no state is entered again except the soft reset and the poll, each
\* twice at most, and a run that has ended stays ended with its outcome.
C12_Terminates ==
  /\ []((pc = "done" /\ exitCode \notin {2, 3}) => outcome \in RecoveryOutcomes)
  /\ []NoRestart
  /\ [][pc = "done" => UNCHANGED <<pc, outcome, exitCode>>]_vars
  /\ <>(pc = "done")

C12_Witness ==
  /\ pc = "done"
  /\ outcome = "TimedOut"
  /\ Len(polls) = 2
  /\ \A v \in SoftVerbs : Count(v) = 2
  /\ polls[2].probes = 2

\* C13: the privilege check and the resolution of the tools come before the
\* first child process and are never returned to. A run without administrator
\* rights ends with exit code 3 whether or not the tools resolve; a run with them
\* and with a tool missing ends with exit code 2; both end with no child process
\* started, and no other run ends with 2 or 3.
C13_GatesFailFast ==
  /\ pc \in {"is_windows_admin", "resolve_executable"} =>
       cmds = <<>> /\ probes = <<>> /\ phase = 0 /\ exitCode = -1
  /\ (~host.admin /\ pc # "is_windows_admin") =>
       /\ pc = "done" /\ exitCode = 3 /\ cmds = <<>>
       /\ logged = {Log("ERROR", "Administrator privileges are required on Windows.", <<>>)}
  /\ (host.admin /\ (~host.adb \/ ~host.devcon)
        /\ pc \notin {"is_windows_admin", "resolve_executable"}) =>
       pc = "done" /\ exitCode = 2 /\ cmds = <<>>
  /\ exitCode = 3 => ~host.admin
  /\ exitCode = 2 => host.admin /\ (~host.adb \/ ~host.devcon)
  /\ cmds # <<>> => host.admin /\ host.adb /\ host.devcon

C13_Witness ==
  /\ exitCode = 3
  /\ ~host.adb
  /\ host.devcon

\* The running call of poll_until_healthy: the sleeps it has made, and the clock
\* at its entry, which is the clock now less its probes and its sleeps.
InPoll == pc \in {"poll_while", "poll_probe", "poll_sleep"}
PollSleeps ==
  IF pc = "poll_sleep" THEN polls[Len(polls)].probes - 1 ELSE polls[Len(polls)].probes
PollEntryTime == clock - polls[Len(polls)].took - PollInterval * PollSleeps

\* C14: in each of the two polls the deadline is the clock at the entry of that
\* poll plus the timeout, whatever the run has spent before it; a poll gives up
\* only when its own probes and sleeps have used the whole timeout.
C14_FullBudgetPerPhase ==
  /\ InPoll => deadline = PollEntryTime + args.timeout
  /\ \A k \in 1..Len(polls) :
       polls[k].result = "timeout" =>
         /\ polls[k].expired
         /\ polls[k].took + PollInterval * polls[k].probes >= args.timeout

C14_Witness ==
  /\ InPoll
  /\ Len(polls) = 2
  /\ hardRcs = <<0, 0>>
  /\ args.timeout >= 1
  /\ PollEntryTime > 2 * args.timeout + SettleDelay
  /\ polls[2].probes >= 1
  /\ clock < deadline

\* The entries of an enumeration: its lines "<instance id> : <display name>".
EntryLines(stdout) ==
  { i \in 1..Len(stdout) : \E k \in 1..Len(stdout[i]) : stdout[i][k] = ":" }
EntryId(line) == Strip(SubSeq(line, 1, FirstIn(line, {":"}) - 1))
EntryName(line) == Strip(SubSeq(line, FirstIn(line, {":"}) + 1, Len(line)))
NamedEntries(stdout) ==
  { i \in EntryLines(stdout) :
      Contains(Upper(EntryName(stdout[i])), Upper(ANDROID_DEVICE_NAME)) }
VendorEntries(stdout) ==
  { i \in EntryLines(stdout) :
      \E vid \in COMMON_ANDROID_VIDS :
        Contains(Upper(EntryId(stdout[i])), <<"V", "I", "D", "_">> \o vid) }
FirstNamedEntry(stdout) ==
  CHOOSE i \in NamedEntries(stdout) : \A j \in NamedEntries(stdout) : i <= j
\* For every enumeration the environment can give, computed once: has it a
\* name-matched entry and another entry with an allowlisted vendor ID, and the
\* identifier of its first name-matched entry.
NameAndVendorOf ==
  [r \in FindallResults |->
     \E n \in NamedEntries(r.stdout), v \in VendorEntries(r.stdout) : n # v]
FirstNamedIdOf ==
  [r \in FindallResults |->
     IF NamedEntries(r.stdout) = {} THEN None
     ELSE EntryId(r.stdout[FirstNamedEntry(r.stdout)])]

\* C15: after an enumeration that exited 0 and holds an entry whose name contains
\* the device-class name in any letter case, and another entry with an
\* allowlisted vendor ID, the locator has returned the identifier of the first
\* name-matched entry, wherever the other entry stands, and `devcon hwids` is not run.
C15_NameMatchPreferred ==
  (/\ last.verb = "findall"
   /\ last.returncode = 0
   /\ NameAndVendorOf[last]) =>
    /\ instance_id = FirstNamedIdOf[last]
    /\ Count("hwids") = 0
    /\ pc # "devcon_hwids"

C15_Witness ==
  /\ last.verb = "findall"
  /\ last.stdout = <<D_PIXEL, D_GENERIC, D_ADB>>
  /\ instance_id = EntryId(D_GENERIC)
  /\ 1 \in VendorEntries(last.stdout)
  /\ NamedEntries(last.stdout) = {2, 3}

\* C16: the value of a probe is TRUE exactly when `adb devices` exited 0 and the
\* state of the selected record (the first with the filter's serial, or the first
\* of all without a filter) is "device"; any other state of that record gives
\* FALSE, healthy records after it notwithstanding.
C16_HealthyIffSelectedDevice ==
  last.verb = "devices" =>
    /\ Len(probes) >= 1
    /\ probes[Len(probes)] <=>
         (/\ last.returncode = 0
          /\ SelectedStateOf[last][args.serial] = ADB_HEALTHY_STATE)

C16_Witness ==
  /\ last.verb = "devices"
  /\ last.stdout = <<A_HEADER, A_S1_OFFLINE, A_S2_DEVICE>>
  /\ args.serial = None
  /\ SelectedState(last.stdout, args.serial) = Split(A_S1_OFFLINE)[2]
  /\ probes[Len(probes)] = FALSE

\* The records of a listing whose serial is the filter's.
RecordsWithSerial(stdout, serial) ==
  { i \in RecordLines(stdout) : Split(stdout[i])[1] = serial }

\* C17: with a serial filter that no record of the listing carries, the probe is
\* FALSE and logs that no device was found, healthy records of other serials
\* notwithstanding; the step that makes the probe takes the run where any
\* unhealthy probe does: to the soft reset after the first probe, to the sleep
\* inside a poll.
C17_FilterMismatchIsAbsent ==
  [][(/\ Len(probes') = Len(probes) + 1
      /\ last'.verb = "devices"
      /\ last'.returncode = 0
      /\ Truthy(args.serial)
      /\ RecordsWithSerial(last'.stdout, args.serial) = {}) =>
       /\ probes'[Len(probes')] = FALSE
       /\ Log("INFO", "No ADB device found.", <<>>) \in logged'
       /\ exitCode' = -1
       /\ IF Len(probes') = 1
          THEN pc' = "soft_reset" /\ phase' = 1 /\ softIdx' = 1
          ELSE pc' = "poll_sleep"]_vars

C17_Witness ==
  /\ last.verb = "devices"
  /\ last.stdout = <<A_HEADER, A_S2_DEVICE>>
  /\ args.serial = SERIAL_S1
  /\ pc = "poll_sleep"
  /\ phase = 2

\* C18: a match of either locator stage leads to the hard reset of the matched
\* entry's identifier, the empty identifier included: DeviceNotFound is returned
\* only after `devcon hwids`, when it failed or no entry of it has an allowlisted
\* vendor ID; after an enumeration with a name-matched entry the run holds that
\* entry's identifier and is not ended as not found; disable and enable are
\* given the identifier the locator returned.
C18_MatchLeadsToHardReset ==
  /\ outcome = "DeviceNotFound" =>
       /\ last.verb = "hwids"
       /\ last.returncode # 0 \/ VidMatch(parse_devcon_hwids(last.stdout)) = 0
  /\ (/\ last.verb = "findall"
      /\ last.returncode = 0
      /\ NamedEntries(last.stdout) # {}) =>
       /\ instance_id = EntryId(last.stdout[FirstNamedEntry(last.stdout)])
       /\ outcome # "DeviceNotFound"
  /\ \A i \in 1..Len(cmds) :
       cmds[i].verb \in {"disable", "enable"} => cmds[i].arg = instance_id

\* The soft-reset commands started so far; the states between two phases.
SoftCount == Cardinality({ i \in 1..Len(cmds) : cmds[i].verb \in SoftVerbs })
AtPhaseBoundary ==
  /\ pc # "soft_reset"
  /\ ~(pc = "hung" /\ cmds[Len(cmds)].verb \in SoftVerbs)
HardResetSucceeded ==
  \/ args.dry_run /\ Truthy(instance_id)
  \/ hardRcs = <<0, 0>>

\* C19: in every state of every run at most one disable and one enable have been
\* started; an enable directly follows a disable of the same identifier that
\* exited 0; each enumeration of the locator has run once at most; outside a
\* soft reset the soft-reset commands started number 0, 3 or 6; and more than
\* three only when hard_reset has returned True.
C19_RunInvariant ==
  /\ Count("disable") <= 1 /\ Count("enable") <= 1
  /\ \A i \in 1..Len(cmds) :
       cmds[i].verb = "enable" =>
         /\ i > 1
         /\ cmds[i - 1] = Cmd("devcon", "disable", cmds[i].arg)
         /\ Len(hardRcs) >= 1 /\ hardRcs[1] = 0
  /\ Count("findall") <= 1 /\ Count("hwids") <= 1
  /\ Count("hwids") = 1 => Count("findall") = 1
  /\ AtPhaseBoundary => SoftCount \in {0, 3, 6}
  /\ SoftCount > 3 => phase = 2 /\ HardResetSucceeded
  /\ phase = 2 => HardResetSucceeded

C19_Witness ==
  /\ pc = "done"
  /\ SoftCount = 6
  /\ Count("enable") = 1
  /\ Count("hwids") = 1
  /\ outcome = "TimedOut"

\* The probes of the k-th call of poll_until_healthy, as indices of `probes`
\* (the first probe of the run is made before any poll).
ProbesOfPoll(k) ==
  LET before == 1 + (IF k = 2 THEN polls[1].probes ELSE 0)
  IN  (before + 1)..(before + polls[k].probes)

\* C20: with a timeout of 1 or more a poll returns False only after at least one
\* probe, all its probes having been unhealthy; a probe of a poll starts with the
\* clock strictly before the deadline; the sleep between two probes takes
\* exactly 2 seconds and a probe is only started from the test of the loop; a
\* poll whose probes take no time makes at most ceil(timeout / 2) probes.
C20_PollBounds ==
  /\ [](\A k \in 1..Len(polls) :
          /\ (args.timeout >= 1 /\ polls[k].result = "timeout") => polls[k].probes >= 1
          /\ polls[k].result = "timeout" => \A i \in ProbesOfPoll(k) : probes[i] = FALSE
          /\ polls[k].took = 0 => polls[k].probes <= (args.timeout + 1) \div 2)
  /\ [](pc = "poll_probe" => clock < deadline)
  /\ [][/\ pc = "poll_sleep" => clock' = clock + PollInterval /\ pc' = "poll_while"
        /\ (pc' = "poll_probe" /\ pc # "poll_probe") => pc = "poll_while" /\ clock' = clock
        /\ (pc' = "poll_while" /\ pc # "poll_while") =>
             pc \in {"poll_until_healthy", "poll_sleep"}]_vars

C20_Witness ==
  /\ Len(polls) = 2
  /\ args.timeout = 3
  /\ polls[2].result = "timeout"
  /\ polls[2].took = 0
  /\ polls[2].probes = 2
  /\ polls[1].probes = 1
====
